---- MODULE Spec2Model ----
(***************************************************************************)
(* Unsupervised lexical sentiment analysis notebook                        *)
(* ("11 - Sentiment Analysis - Unsupervised Lexical Models.ipynb").        *)
(*                                                                         *)
(* The kernel is a state machine: its state is the set of global names the *)
(* executed cells have defined and their values; one action per code cell. *)
(* The cells of a section (TextBlob, AFINN, VADER) run top to bottom; a    *)
(* section as a whole may be left out, and an uncaught exception ends the  *)
(* section it occurs in.  List comprehensions over test_reviews advance    *)
(* one review per step (i is the position, acc the list under              *)
(* construction).                                                          *)
(*                                                                         *)
(* A text is a sequence of tokens.  Scores are integers in units of        *)
(* 1/10000 (0.1 is 1000, 1.0 is 10000, 0.4 is 4000).                       *)
(***************************************************************************)
EXTENDS Integers, Sequences, FiniteSets, TLC

VARIABLES pc, csv, dataset, test_reviews, test_sentiments, names, afn,
          sentiment_polarity, predicted_sentiments, i, acc,
          calls, vader_calls, reports, raised, status, owner

vars == <<pc, csv, dataset, test_reviews, test_sentiments, names, afn,
          sentiment_polarity, predicted_sentiments, i, acc,
          calls, vader_calls, reports, raised, status, owner>>

(* ------------------------------ bounds --------------------------------- *)

\* number of rows of movie_reviews.csv.bz2 (50000 in the recorded run)
DatasetLen == 4

(* --------------------------- program constants ------------------------- *)

\* dataset[...].values[35000:], scaled to the bounded dataset
SplitAt == 1

\* the cutoffs the claims name, in 1/10000
TextBlobCutoff == 1000
AfinnCutoff == 10000
VaderCutoff == 4000

Labels == {"positive", "negative"}
Pipelines == {"TextBlob", "AFINN", "VADER"}

\* sample_review_ids = [7626, 3533, 13010], scaled: positions in the test split
sample_review_ids == <<2, 1>>

(* ------------------------------ the texts ------------------------------ *)

\* a missing review field read by pandas: a float, not a str
NaN == <<"float('nan')">>

\* the three sample reviews of the recorded run, abbreviated
SkipIt == <<"no comment - stupid movie", "SKIP IT!">>
VeryGood == <<"I", "don't", "care", "Very Good Movie!">>
WorstFunniest == <<"Worst horror film ever", "funniest film ever">>
\* reviews with markup, a pipe, a line break, an accented letter ({e-acute}
\* stands for U+00E9) and a character without ASCII form (U+2014)
HtmlReview == <<"fine", "|", "<br />", "\n", "film">>
AccentReview == <<"caf{e-acute}", "{em-dash}", "ok">>
\* a review without any word of a lexicon
Plain == <<"the", "movie">>

Rows == { [review |-> SkipIt, sentiment |-> "negative"],
          [review |-> VeryGood, sentiment |-> "positive"],
          [review |-> WorstFunniest, sentiment |-> "positive"],
          [review |-> HtmlReview, sentiment |-> "negative"],
          [review |-> AccentReview, sentiment |-> "positive"],
          [review |-> Plain, sentiment |-> "positive"],
          [review |-> NaN, sentiment |-> "negative"] }

\* the rows before the split are never scored: two of them suffice
TrainRows == { [review |-> SkipIt, sentiment |-> "negative"],
               [review |-> VeryGood, sentiment |-> "positive"] }

(* ------------------------- text pre-processing ------------------------- *)

HtmlTags == {"<br />", "<b>", "</b>"}
ScriptElements == {"<script>x</script>", "<iframe>x</iframe>"}
\* the character class [\r|\n|\r\n] : carriage return, pipe, line feed
NewlineClass == {"\r", "|", "\n"}

RECURSIVE CollapseNewlines(_)
CollapseNewlines(text) ==
  IF text = <<>> THEN <<>>
  ELSE IF Head(text) \in NewlineClass
       THEN IF Len(text) > 1 /\ text[2] \in NewlineClass
            THEN CollapseNewlines(Tail(text))
            ELSE <<"\n">> \o CollapseNewlines(Tail(text))
       ELSE <<Head(text)>> \o CollapseNewlines(Tail(text))

strip_html_tags(text) ==
  LET soup == SelectSeq(text, LAMBDA t : t \notin ScriptElements)
      stripped_text == SelectSeq(soup, LAMBDA t : t \notin HtmlTags)
  IN CollapseNewlines(stripped_text)

\* NFKD, then encode('ascii', 'ignore'): the base letter survives, a
\* character without an ASCII decomposition is dropped
AsciiOf(t) ==
  CASE t = "caf{e-acute}" -> <<"cafe">>
    [] t = "{em-dash}" -> <<>>
    [] OTHER -> <<t>>

RECURSIVE remove_accented_chars(_)
remove_accented_chars(text) ==
  IF text = <<>> THEN <<>>
  ELSE AsciiOf(Head(text)) \o remove_accented_chars(Tail(text))

ContractionOf(t) ==
  CASE t = "don't" -> <<"do", "not">>
    [] OTHER -> <<t>>

RECURSIVE expand_contractions(_)
expand_contractions(text) ==
  IF text = <<>> THEN <<>>
  ELSE ContractionOf(Head(text)) \o expand_contractions(Tail(text))

(* --------------------------- library scorers --------------------------- *)

\* a library scorer raises TypeError on a value that is not a str
Raises(review) == review = NaN

\* textblob.TextBlob(review).sentiment.polarity: the recorded polarities of
\* the sample reviews; a review at the cutoff, one above it; unknown words
\* contribute zero
TextBlobPolarity(review) ==
  CASE review = SkipIt -> -3625
    [] review = VeryGood -> 1667
    [] review = WorstFunniest -> -372
    [] review = HtmlReview -> 1000
    [] review = AccentReview -> 5000
    [] OTHER -> 0

\* Afinn(emoticons=True): the object holds the word list it scores with
Afinn ==
  [ t \in {SkipIt, VeryGood, WorstFunniest, HtmlReview, AccentReview,
            Plain} |->
      CASE t = SkipIt -> -70000
        [] t = VeryGood -> 30000
        [] t = WorstFunniest -> -30000
        [] t = HtmlReview -> 10000
        [] OTHER -> 0 ]

\* afn.score(review): reads the word list
afn_score(obj, review) == IF review \in DOMAIN obj THEN obj[review] ELSE 0

\* SentimentIntensityAnalyzer(): the compound scores as printed (2 places);
\* a compound at the cutoff and one just below it that rounds to the cutoff
SentimentIntensityAnalyzer ==
  [ t \in { SkipIt, <<"I", "do", "not", "care", "Very Good Movie!">>,
            WorstFunniest, <<"fine", "\n", "film">>, <<"cafe", "ok">>,
            Plain } |->
      CASE t = SkipIt -> -8000
        [] t = <<"I", "do", "not", "care", "Very Good Movie!">> -> -1600
        [] t = WorstFunniest -> 4900
        [] t = <<"fine", "\n", "film">> -> 4000
        [] t = <<"cafe", "ok">> -> 3960
        [] OTHER -> 0 ]

polarity_scores(analyzer, text) ==
  [ compound |-> IF text \in DOMAIN analyzer THEN analyzer[text] ELSE 0 ]

(* ------------------------ thresholds and calls ------------------------- *)

\* variant: the two labels exchanged
TextBlobLabelSwapped(score) == IF score >= 1000 THEN "negative" ELSE "positive"

\* variant: a strict comparison
TextBlobLabelStrict(score) == IF score > 1000 THEN "positive" ELSE "negative"

\* 'positive' if score >= 0.1 else 'negative'
TextBlobLabel(score) == IF score >= 1000 THEN "positive" ELSE "negative"

\* 'positive' if score >= 1.0 else 'negative'
AfinnLabel(score) == IF score >= 10000 THEN "positive" ELSE "negative"

\* textblob.TextBlob(review).sentiment.polarity for review in test_reviews
TextBlobElement(review) == TextBlobPolarity(review)

\* variant: a running total instead of the score of the review
AfinnElementRunning(review) ==
  afn_score(afn, review) + (IF acc = <<>> THEN 0 ELSE acc[Len(acc)])

\* afn.score(review) for review in test_reviews
AfinnElement(review) == afn_score(afn, review)

\* round(agg_score, 2)
Round2(x) == ((x + 50) \div 100) * 100

\* variant: without expand_contractions
analyze_sentiment_vader_lexicon_NoExpand(review0, threshold, verbose) ==
  LET review1 == strip_html_tags(review0)
      review2 == remove_accented_chars(review1)
      analyzer == SentimentIntensityAnalyzer
      scores == polarity_scores(analyzer, review2)
      agg_score == scores.compound
      final_sentiment == IF agg_score >= threshold THEN "positive"
                                                   ELSE "negative"
  IN [ review |-> review0, threshold |-> threshold, verbose |-> verbose,
       input |-> review2, score |-> agg_score, label |-> final_sentiment,
       printed |-> IF verbose THEN <<final_sentiment, Round2(agg_score)>>
                              ELSE <<>> ]

\* variant: the verbose branch decides the label again, from the rounded score
analyze_sentiment_vader_lexicon_RoundedLabel(review0, threshold, verbose) ==
  LET review1 == strip_html_tags(review0)
      review2 == remove_accented_chars(review1)
      review3 == expand_contractions(review2)
      analyzer == SentimentIntensityAnalyzer
      scores == polarity_scores(analyzer, review3)
      agg_score == scores.compound
      final == Round2(agg_score)
      final_sentiment == IF (IF verbose THEN final ELSE agg_score) >= threshold
                         THEN "positive" ELSE "negative"
  IN [ review |-> review0, threshold |-> threshold, verbose |-> verbose,
       input |-> review3, score |-> agg_score, label |-> final_sentiment,
       printed |-> IF verbose THEN <<final_sentiment, final>> ELSE <<>> ]

\* the record holds the arguments, the text handed to polarity_scores, the
\* compound score, the returned label and what the verbose branch prints
analyze_sentiment_vader_lexicon(review0, threshold, verbose) ==
  LET review1 == strip_html_tags(review0)
      review2 == remove_accented_chars(review1)
      review3 == expand_contractions(review2)
      analyzer == SentimentIntensityAnalyzer
      scores == polarity_scores(analyzer, review3)
      agg_score == scores.compound
      final_sentiment == IF agg_score >= threshold THEN "positive"
                                                   ELSE "negative"
  IN [ review |-> review0, threshold |-> threshold, verbose |-> verbose,
       input |-> review3, score |-> agg_score, label |-> final_sentiment,
       printed |-> IF verbose THEN <<final_sentiment, Round2(agg_score)>>
                              ELSE <<>> ]

\* analyze_sentiment_vader_lexicon(review, threshold=0.4, verbose=True)
VaderSampleCall(review) == analyze_sentiment_vader_lexicon(review, 4000, TRUE)

\* the default threshold=0.1 of the def
VaderBatchCallDefault(review) ==
  analyze_sentiment_vader_lexicon(review, 1000, FALSE)

\* analyze_sentiment_vader_lexicon(review, threshold=0.4, verbose=False)
VaderBatchCall(review) == analyze_sentiment_vader_lexicon(review, 4000, FALSE)

\* variant: the list built so far is bound even after an exception
ListCompAssignPartial(old, built, excepted) == built

\* name = [f(review) for review in test_reviews]: the name is bound once the
\* whole list is built; an exception in f leaves the name as it was
ListCompAssign(old, built, excepted) == IF excepted THEN old ELSE built

\* variant: the labels sliced one row later than the reviews
TestSentimentsSliceOffByOne(ds) ==
  [ k \in 1..(Len(ds) - (SplitAt + 1)) |-> ds[SplitAt + 1 + k].sentiment ]

\* dataset['review'].values[35000:]
TestReviewsSlice(ds) ==
  [ k \in 1..(Len(ds) - SplitAt) |-> ds[SplitAt + k].review ]

\* dataset['sentiment'].values[35000:]
TestSentimentsSlice(ds) ==
  [ k \in 1..(Len(ds) - SplitAt) |-> ds[SplitAt + k].sentiment ]

(* --------------------------- metrics reporter -------------------------- *)

\* n/d in 1/10000, rounded to 4 places; 0 when d = 0
Ratio(n, d) == IF d = 0 THEN 0 ELSE (2 * n * 10000 + d) \div (2 * d)

CountOf(true_labels, predicted_labels, t, p) ==
  Cardinality({ k \in DOMAIN true_labels \cap DOMAIN predicted_labels :
                  true_labels[k] = t /\ predicted_labels[k] = p })

ConfusionMatrix(true_labels, predicted_labels, classes) ==
  [ t \in classes |->
      [ p \in classes |-> CountOf(true_labels, predicted_labels, t, p) ] ]

RECURSIVE SumOver(_, _)
SumOver(f, S) ==
  IF S = {} THEN 0
  ELSE LET x == CHOOSE y \in S : TRUE IN f[x] + SumOver(f, S \ {x})

MetricsOf(cm, classes) ==
  LET total == SumOver([t \in classes |-> SumOver(cm[t], classes)], classes)
      support == [c \in classes |-> SumOver(cm[c], classes)]
      predicted == [c \in classes |->
                      SumOver([t \in classes |-> cm[t][c]], classes)]
      prec == [c \in classes |-> Ratio(cm[c][c], predicted[c])]
      rec == [c \in classes |-> Ratio(cm[c][c], support[c])]
      f1 == [c \in classes |->
               IF prec[c] + rec[c] = 0 THEN 0
               ELSE (2 * prec[c] * rec[c]) \div (prec[c] + rec[c])]
      Weighted(m) == IF total = 0 THEN 0
                     ELSE SumOver([c \in classes |-> support[c] * m[c]],
                                  classes) \div total
  IN [ accuracy |-> Ratio(SumOver([c \in classes |-> cm[c][c]], classes),
                          total),
       precision |-> Weighted(prec),
       recall |-> Weighted(rec),
       f1 |-> Weighted(f1),
       confusion |-> cm ]

\* variant: a reporter that keeps counting into the previous confusion matrix
display_model_performance_metrics_Stateful(true_labels, predicted_labels, classes) ==
  LET fresh == ConfusionMatrix(true_labels, predicted_labels, classes)
      cm == IF reports = <<>> THEN fresh
            ELSE [ t \in classes |-> [ p \in classes |->
                     fresh[t][p] + reports[Len(reports)].report.confusion[t][p] ] ]
  IN MetricsOf(cm, classes)

\* meu.display_model_performance_metrics(true_labels, predicted_labels,
\* classes): the printed report as a record
display_model_performance_metrics(true_labels, predicted_labels, classes) ==
  MetricsOf(ConfusionMatrix(true_labels, predicted_labels, classes), classes)

(* ------------------------------ the kernel ----------------------------- *)

Classes == {"positive", "negative"}

SectionOf(cell) ==
  CASE cell \in {"c3", "c4", "c5", "c6"} -> "TextBlob"
    [] cell \in {"c7", "c8", "c9", "c10"} -> "AFINN"
    [] OTHER -> "VADER"

\* the first cell after the section of pipeline p
NextSection(p) ==
  CASE p = "TextBlob" -> "c7"
    [] p = "AFINN" -> "c11"
    [] OTHER -> "done"

Init ==
  /\ pc = "c1"
  /\ csv \in [1..DatasetLen -> Rows]
  /\ \A k \in 1..SplitAt : csv[k] \in TrainRows
  /\ dataset = <<>>
  /\ test_reviews = <<>>
  /\ test_sentiments = <<>>
  /\ names = {}
  /\ afn = <<>>
  /\ sentiment_polarity = <<>>
  /\ predicted_sentiments = <<>>
  /\ i = 1
  /\ acc = <<>>
  /\ calls = <<>>
  /\ vader_calls = <<>>
  /\ reports = <<>>
  /\ raised = <<>>
  /\ status = [p \in Pipelines |-> "idle"]
  /\ owner = [sentiment_polarity |-> "none", predicted_sentiments |-> "none"]

\* control moves to the given cell
Goto(cell) == pc' = cell /\ i' = 1 /\ acc' = <<>>

\* an exception leaves the running cell uncaught: the section of pipeline p
\* ends; the list under construction is lost
Raise(p, exc) ==
  /\ raised' = Append(raised, [cell |-> pc, pipeline |-> p, exc |-> exc,
                                partial |-> acc])
  /\ status' = [status EXCEPT ![p] = "aborted"]
  /\ Goto(NextSection(p))

Running(p) == status' = [status EXCEPT ![p] = "running"]

\* the sample loops: for review, sentiment in zip(test_reviews[ids], ...)
SampleReview == test_reviews[sample_review_ids[i]]

NextSample(cell) ==
  IF i < Len(sample_review_ids)
  THEN i' = i + 1 /\ UNCHANGED <<pc, acc>>
  ELSE Goto(cell)

\* cell 1: dataset = pd.read_csv(...)
LoadDataset ==
  /\ pc = "c1"
  /\ dataset' = csv
  /\ names' = names \cup {"pd", "np", "dataset"}
  /\ Goto("c2")
  /\ UNCHANGED <<csv, test_reviews, test_sentiments, afn, sentiment_polarity,
                 predicted_sentiments, calls, vader_calls, reports, raised,
                 status, owner>>

\* cell 2: the test split
ExtractTestData ==
  /\ pc = "c2"
  /\ test_reviews' = TestReviewsSlice(dataset)
  /\ test_sentiments' = TestSentimentsSlice(dataset)
  /\ names' = names \cup {"test_reviews", "test_sentiments",
                          "sample_review_ids"}
  /\ Goto("c3")
  /\ UNCHANGED <<csv, dataset, afn, sentiment_polarity, predicted_sentiments,
                 calls, vader_calls, reports, raised, status, owner>>

\* a section is not executed
SkipSection ==
  /\ pc \in {"c3", "c7", "c11"}
  /\ status' = [status EXCEPT ![SectionOf(pc)] = "skipped"]
  /\ Goto(NextSection(SectionOf(pc)))
  /\ UNCHANGED <<csv, dataset, test_reviews, test_sentiments, names, afn,
                 sentiment_polarity, predicted_sentiments, calls, vader_calls,
                 reports, raised, owner>>

(* TextBlob *)

\* cell 3: import textblob; print the polarity of the sample reviews
TextBlobSample ==
  /\ pc = "c3"
  /\ names' = names \cup {"textblob"}
  /\ IF Raises(SampleReview)
     THEN Raise("TextBlob", "TypeError") /\ UNCHANGED calls
     ELSE /\ calls' = Append(calls, [lib |-> "TextBlob", cell |-> "c3",
                                     review |-> SampleReview,
                                     input |-> SampleReview,
                                     score |-> TextBlobPolarity(SampleReview)])
          /\ Running("TextBlob")
          /\ NextSample("c4")
          /\ UNCHANGED raised
  /\ UNCHANGED <<csv, dataset, test_reviews, test_sentiments, afn,
                 sentiment_polarity, predicted_sentiments, vader_calls,
                 reports, owner>>

\* cell 4: sentiment_polarity = [... for review in test_reviews]
TextBlobScoreBatch ==
  /\ pc = "c4"
  /\ IF i > Len(test_reviews)
     THEN /\ sentiment_polarity' = ListCompAssign(sentiment_polarity, acc, FALSE)
          /\ owner' = [owner EXCEPT !.sentiment_polarity = "TextBlob"]
          /\ names' = names \cup {"sentiment_polarity"}
          /\ Goto("c5")
          /\ UNCHANGED <<calls, raised, status>>
     ELSE IF Raises(test_reviews[i])
     THEN /\ sentiment_polarity' = ListCompAssign(sentiment_polarity, acc, TRUE)
          /\ Raise("TextBlob", "TypeError")
          /\ UNCHANGED <<calls, names, owner>>
     ELSE LET score == TextBlobElement(test_reviews[i]) IN
          /\ acc' = Append(acc, score)
          /\ calls' = Append(calls, [lib |-> "TextBlob", cell |-> "c4",
                                     review |-> test_reviews[i],
                                     input |-> test_reviews[i],
                                     score |-> score])
          /\ i' = i + 1
          /\ UNCHANGED <<pc, sentiment_polarity, names, owner, raised, status>>
  /\ UNCHANGED <<csv, dataset, test_reviews, test_sentiments, afn,
                 predicted_sentiments, vader_calls, reports>>

\* cell 5: predicted_sentiments = [... for score in sentiment_polarity]
TextBlobThreshold ==
  /\ pc = "c5"
  /\ predicted_sentiments' = [ k \in DOMAIN sentiment_polarity |->
                                 TextBlobLabel(sentiment_polarity[k]) ]
  /\ owner' = [owner EXCEPT !.predicted_sentiments = "TextBlob"]
  /\ names' = names \cup {"predicted_sentiments"}
  /\ Goto("c6")
  /\ UNCHANGED <<csv, dataset, test_reviews, test_sentiments, afn,
                 sentiment_polarity, calls, vader_calls, reports, raised,
                 status>>

\* variant: the true and the predicted labels passed in each other's place
ReportSwapped(p) ==
  /\ reports' = Append(reports,
       [ pipeline |-> p, true_labels |-> test_sentiments,
         predicted_labels |-> predicted_sentiments,
         report |-> display_model_performance_metrics(predicted_sentiments,
                       test_sentiments, Classes) ])
  /\ status' = [status EXCEPT ![p] = "finished"]
  /\ Goto(NextSection(p))
  /\ UNCHANGED raised

\* the call of the reporter in a metrics cell of pipeline p
Report(p) ==
  /\ reports' = Append(reports,
       [ pipeline |-> p, true_labels |-> test_sentiments,
         predicted_labels |-> predicted_sentiments,
         report |-> display_model_performance_metrics(test_sentiments,
                       predicted_sentiments, Classes) ])
  /\ status' = [status EXCEPT ![p] = "finished"]
  /\ Goto(NextSection(p))
  /\ UNCHANGED raised

\* cell 6: import model_evaluation_utils as meu; report
TextBlobMetrics ==
  /\ pc = "c6"
  /\ names' = names \cup {"meu"}
  /\ Report("TextBlob")
  /\ UNCHANGED <<csv, dataset, test_reviews, test_sentiments, afn,
                 sentiment_polarity, predicted_sentiments, calls, vader_calls,
                 owner>>

(* AFINN *)

\* cell 7: afn = Afinn(emoticons=True)
AfinnConstruct ==
  /\ pc = "c7"
  /\ afn' = Afinn
  /\ names' = names \cup {"Afinn", "afn"}
  /\ Running("AFINN")
  /\ Goto("c8")
  /\ UNCHANGED <<csv, dataset, test_reviews, test_sentiments,
                 sentiment_polarity, predicted_sentiments, calls, vader_calls,
                 reports, raised, owner>>

\* cell 8: print afn.score(review) of the sample reviews
AfinnSample ==
  /\ pc = "c8"
  /\ IF Raises(SampleReview)
     THEN Raise("AFINN", "TypeError") /\ UNCHANGED calls
     ELSE /\ calls' = Append(calls, [lib |-> "AFINN", cell |-> "c8",
                                     review |-> SampleReview,
                                     input |-> SampleReview,
                                     score |-> afn_score(afn, SampleReview)])
          /\ NextSample("c9")
          /\ UNCHANGED <<raised, status>>
  /\ UNCHANGED <<csv, dataset, test_reviews, test_sentiments, names, afn,
                 sentiment_polarity, predicted_sentiments, vader_calls,
                 reports, owner>>

\* cell 9: sentiment_polarity = [...]; predicted_sentiments = [...]
AfinnBatch ==
  /\ pc = "c9"
  /\ IF i > Len(test_reviews)
     THEN /\ sentiment_polarity' = ListCompAssign(sentiment_polarity, acc, FALSE)
          /\ predicted_sentiments' =
               [ k \in DOMAIN sentiment_polarity' |->
                   AfinnLabel(sentiment_polarity'[k]) ]
          /\ owner' = [sentiment_polarity |-> "AFINN",
                       predicted_sentiments |-> "AFINN"]
          /\ names' = names \cup {"sentiment_polarity", "predicted_sentiments"}
          /\ Goto("c10")
          /\ UNCHANGED <<calls, raised, status>>
     ELSE IF Raises(test_reviews[i])
     THEN /\ sentiment_polarity' = ListCompAssign(sentiment_polarity, acc, TRUE)
          /\ Raise("AFINN", "TypeError")
          /\ UNCHANGED <<predicted_sentiments, calls, names, owner>>
     ELSE LET score == AfinnElement(test_reviews[i]) IN
          /\ acc' = Append(acc, score)
          /\ calls' = Append(calls, [lib |-> "AFINN", cell |-> "c9",
                                     review |-> test_reviews[i],
                                     input |-> test_reviews[i],
                                     score |-> score])
          /\ i' = i + 1
          /\ UNCHANGED <<pc, sentiment_polarity, predicted_sentiments, names,
                         owner, raised, status>>
  /\ UNCHANGED <<csv, dataset, test_reviews, test_sentiments, afn, vader_calls,
                 reports>>

\* a metrics cell that uses meu without importing it
ReportWithMeu(p) ==
  IF "meu" \in names
  THEN Report(p)
  ELSE Raise(p, "NameError") /\ UNCHANGED reports

\* cell 10: meu.display_model_performance_metrics(...)
AfinnMetrics ==
  /\ pc = "c10"
  /\ ReportWithMeu("AFINN")
  /\ UNCHANGED <<csv, dataset, test_reviews, test_sentiments, names, afn,
                 sentiment_polarity, predicted_sentiments, calls, vader_calls,
                 owner>>

(* VADER *)

\* cell 11: from nltk.sentiment.vader import SentimentIntensityAnalyzer
VaderImport ==
  /\ pc = "c11"
  /\ names' = names \cup {"SentimentIntensityAnalyzer"}
  /\ Running("VADER")
  /\ Goto("c12")
  /\ UNCHANGED <<csv, dataset, test_reviews, test_sentiments, afn,
                 sentiment_polarity, predicted_sentiments, calls, vader_calls,
                 reports, raised, owner>>

\* cell 12: the three pre-processing functions
VaderDefineUtils ==
  /\ pc = "c12"
  /\ names' = names \cup {"strip_html_tags", "remove_accented_chars",
                          "expand_contractions"}
  /\ Goto("c13")
  /\ UNCHANGED <<csv, dataset, test_reviews, test_sentiments, afn,
                 sentiment_polarity, predicted_sentiments, calls, vader_calls,
                 reports, raised, status, owner>>

\* cell 13: def analyze_sentiment_vader_lexicon
VaderDefineAnalyze ==
  /\ pc = "c13"
  /\ names' = names \cup {"analyze_sentiment_vader_lexicon"}
  /\ Goto("c14")
  /\ UNCHANGED <<csv, dataset, test_reviews, test_sentiments, afn,
                 sentiment_polarity, predicted_sentiments, calls, vader_calls,
                 reports, raised, status, owner>>

\* the scorer call made inside analyze_sentiment_vader_lexicon
VaderScorerCall(cell, r) ==
  [lib |-> "VADER", cell |-> cell, review |-> r.review, input |-> r.input,
   score |-> r.score]

\* cell 14: the sample reviews, verbose
VaderSample ==
  /\ pc = "c14"
  /\ IF Raises(SampleReview)
     THEN Raise("VADER", "TypeError") /\ UNCHANGED <<calls, vader_calls>>
     ELSE LET pred == VaderSampleCall(SampleReview) IN
          /\ vader_calls' = Append(vader_calls, [cell |-> "c14"] @@ pred)
          /\ calls' = Append(calls, VaderScorerCall("c14", pred))
          /\ NextSample("c15")
          /\ UNCHANGED <<raised, status>>
  /\ UNCHANGED <<csv, dataset, test_reviews, test_sentiments, names, afn,
                 sentiment_polarity, predicted_sentiments, reports, owner>>

\* cell 15: predicted_sentiments = [analyze_sentiment_vader_lexicon(...) ...]
VaderBatch ==
  /\ pc = "c15"
  /\ IF i > Len(test_reviews)
     THEN /\ predicted_sentiments' =
               ListCompAssign(predicted_sentiments, acc, FALSE)
          /\ owner' = [owner EXCEPT !.predicted_sentiments = "VADER"]
          /\ names' = names \cup {"predicted_sentiments"}
          /\ Goto("c16")
          /\ UNCHANGED <<calls, vader_calls, raised, status>>
     ELSE IF Raises(test_reviews[i])
     THEN /\ predicted_sentiments' =
               ListCompAssign(predicted_sentiments, acc, TRUE)
          /\ Raise("VADER", "TypeError")
          /\ UNCHANGED <<calls, vader_calls, names, owner>>
     ELSE LET pred == VaderBatchCall(test_reviews[i]) IN
          /\ acc' = Append(acc, pred.label)
          /\ vader_calls' = Append(vader_calls, [cell |-> "c15"] @@ pred)
          /\ calls' = Append(calls, VaderScorerCall("c15", pred))
          /\ i' = i + 1
          /\ UNCHANGED <<pc, predicted_sentiments, names, owner, raised,
                         status>>
  /\ UNCHANGED <<csv, dataset, test_reviews, test_sentiments, afn,
                 sentiment_polarity, reports>>

\* cell 16: meu.display_model_performance_metrics(...)
VaderMetrics ==
  /\ pc = "c16"
  /\ ReportWithMeu("VADER")
  /\ UNCHANGED <<csv, dataset, test_reviews, test_sentiments, names, afn,
                 sentiment_polarity, predicted_sentiments, calls, vader_calls,
                 owner>>

Next ==
  \/ LoadDataset
  \/ ExtractTestData
  \/ SkipSection
  \/ TextBlobSample
  \/ TextBlobScoreBatch
  \/ TextBlobThreshold
  \/ TextBlobMetrics
  \/ AfinnConstruct
  \/ AfinnSample
  \/ AfinnBatch
  \/ AfinnMetrics
  \/ VaderImport
  \/ VaderDefineUtils
  \/ VaderDefineAnalyze
  \/ VaderSample
  \/ VaderBatch
  \/ VaderMetrics

Spec == Init /\ [][Next]_vars

TypeOK ==
  /\ pc \in {"c1", "c2", "c3", "c4", "c5", "c6", "c7", "c8", "c9", "c10",
             "c11", "c12", "c13", "c14", "c15", "c16", "done"}
  /\ \A k \in DOMAIN predicted_sentiments : predicted_sentiments[k] \in Labels
  /\ \A p \in Pipelines :
       status[p] \in {"idle", "running", "skipped", "aborted", "finished"}

(* ------------------------------ properties ----------------------------- *)

\* the label a cutoff gives a score
LabelAt(cutoff, score) == IF score >= cutoff THEN "positive" ELSE "negative"

\* the text the VADER pipeline hands to the analyzer
Preprocessed(review) ==
  expand_contractions(remove_accented_chars(strip_html_tags(review)))

\* the library score of a review in pipeline p
ScoreIn(p, review) ==
  CASE p = "TextBlob" -> TextBlobPolarity(review)
    [] p = "AFINN" -> afn_score(Afinn, review)
    [] OTHER -> polarity_scores(SentimentIntensityAnalyzer,
                                Preprocessed(review)).compound

CutoffOf(p) ==
  CASE p = "TextBlob" -> TextBlobCutoff
    [] p = "AFINN" -> AfinnCutoff
    [] OTHER -> VaderCutoff

\* the labels pipeline p owes the test split
OwnLabels(p) ==
  [ k \in DOMAIN test_reviews |->
      LabelAt(CutoffOf(p), ScoreIn(p, test_reviews[k])) ]

\* both global lists were last bound by pipeline p
Owns(p) == owner.sentiment_polarity = p /\ owner.predicted_sentiments = p

BatchCell(p) ==
  CASE p = "TextBlob" -> "c4"
    [] p = "AFINN" -> "c9"
    [] OTHER -> "c15"

\* the scorer calls made by a cell, in the order made
CallsOf(cell) == SelectSeq(calls, LAMBDA c : c.cell = cell)

\* the calls of analyze_sentiment_vader_lexicon made by a cell
VaderCallsOf(cell) == SelectSeq(vader_calls, LAMBDA c : c.cell = cell)

\* C1: every score gets exactly one of the two labels by a fixed cutoff:
\* TextBlob labels 'positive' iff polarity >= 0.1, AFINN iff score >= 1.0,
\* VADER iff compound >= 0.4, every other score is 'negative', and the
\* cutoff is the same in every call of a run.
C1_FixedCutoff ==
  /\ \A p \in {"TextBlob", "AFINN"} :
       Owns(p) =>
         /\ DOMAIN predicted_sentiments = DOMAIN sentiment_polarity
         /\ \A k \in DOMAIN predicted_sentiments :
              /\ predicted_sentiments[k] \in Labels
              /\ predicted_sentiments[k] = "positive"
                   <=> sentiment_polarity[k] >= CutoffOf(p)
  /\ \A k \in DOMAIN vader_calls :
       /\ vader_calls[k].threshold = VaderCutoff
       /\ vader_calls[k].label \in Labels
       /\ vader_calls[k].label = "positive"
            <=> vader_calls[k].score >= VaderCutoff
  /\ owner.predicted_sentiments = "VADER" =>
       \A k \in DOMAIN predicted_sentiments :
         /\ predicted_sentiments[k] = VaderCallsOf("c15")[k].label
         /\ predicted_sentiments[k] = "positive"
              <=> VaderCallsOf("c15")[k].score >= VaderCutoff

\* all three pipelines reported, VADER having given both labels in its
\* sample loop and batch
C1_Witness ==
  /\ pc = "done"
  /\ \A p \in Pipelines : status[p] = "finished"
  /\ \E j, k \in DOMAIN vader_calls :
       /\ vader_calls[j].cell = "c14" /\ vader_calls[k].cell = "c15"
       /\ vader_calls[j].label = "positive"
       /\ vader_calls[k].label = "negative"
  /\ \E j, k \in DOMAIN predicted_sentiments :
       predicted_sentiments[j] # predicted_sentiments[k]

C3_SkipItNegative ==
  owner.predicted_sentiments = "TextBlob" =>
    \A k \in DOMAIN predicted_sentiments :
      test_reviews[k] = SkipIt =>
        /\ predicted_sentiments[k] = "negative"
        /\ sentiment_polarity[k] < TextBlobCutoff

\* the TextBlob pipeline has labelled a test split that holds the review
C3_Witness ==
  /\ owner.predicted_sentiments = "TextBlob"
  /\ \E k \in DOMAIN test_reviews : test_reviews[k] = SkipIt

\* C5: the three pipelines are independent: every section runs without
\* anything another section defines, and every report is computed from the
\* labels of its own pipeline, whichever of the other sections ran before.
C5_Independent ==
  /\ \A k \in DOMAIN raised : raised[k].exc # "NameError"
  /\ \A k \in DOMAIN reports :
       reports[k].predicted_labels = OwnLabels(reports[k].pipeline)

\* C6 (as claimed): in each of the three pipelines the review text reaches
\* the library scorer as it is.
C6_IdenticalShape ==
  \A k \in DOMAIN calls : calls[k].input = calls[k].review

\* C6 (amended): TextBlob and AFINN score the review text as it is; VADER
\* scores the text after strip_html_tags, remove_accented_chars and
\* expand_contractions, a step the others lack.  In every pipeline each
\* label is the thresholded score of that call and a report is made only
\* once a label exists for every test review.
C6_ShapeAmended ==
  /\ \A k \in DOMAIN calls :
       calls[k].input = IF calls[k].lib = "VADER"
                        THEN Preprocessed(calls[k].review)
                        ELSE calls[k].review
  /\ \A k \in DOMAIN vader_calls :
       vader_calls[k].label =
         LabelAt(vader_calls[k].threshold, vader_calls[k].score)
  /\ \A p \in {"TextBlob", "AFINN"} :
       Owns(p) => \A k \in DOMAIN predicted_sentiments :
                    predicted_sentiments[k] =
                      LabelAt(CutoffOf(p), sentiment_polarity[k])
  /\ \A k \in DOMAIN reports :
       /\ Len(reports[k].predicted_labels) = Len(test_reviews)
       /\ Len(CallsOf(BatchCell(reports[k].pipeline))) = Len(test_reviews)

\* VADER has scored a text that differs from the review it was given, and
\* all three pipelines have reported
C6_Witness ==
  /\ \E k \in DOMAIN calls :
       /\ calls[k].lib = "VADER" /\ calls[k].cell = "c15"
       /\ calls[k].input # calls[k].review
  /\ \E k \in DOMAIN calls :
       calls[k].lib = "TextBlob" /\ calls[k].review # Preprocessed(calls[k].review)
  /\ Len(reports) = 3

\* after every call, any two reports on the same labels are the same
C7_SameReport ==
  \A j, k \in DOMAIN reports :
    (reports[j].true_labels = reports[k].true_labels
       /\ reports[j].predicted_labels = reports[k].predicted_labels)
      => reports[j].report = reports[k].report

\* C7: the metrics reporter is pure: a call leaves test_sentiments and
\* predicted_sentiments as they were, and a call with the same true and
\* predicted labels reports the same accuracy, precision, recall, F1 and
\* confusion matrix whatever earlier calls reported.
C7_ReporterPure ==
  [][reports' # reports =>
       /\ UNCHANGED <<test_sentiments, predicted_sentiments>>
       /\ C7_SameReport']_vars

\* a first report on other labels, then two reports on the same labels
C7_Witness ==
  /\ Len(reports) = 3
  /\ reports[1].predicted_labels # reports[2].predicted_labels
  /\ reports[2].predicted_labels = reports[3].predicted_labels
  /\ \E j, k \in DOMAIN test_sentiments : test_sentiments[j] # test_sentiments[k]

\* C8: no error handling: when scoring or pre-processing raises on a review,
\* the exception ends that pipeline's batch: the global lists keep their
\* former values (no default label, no shortened list), no later cell of
\* the pipeline runs and the pipeline reports nothing.
C8_Uncaught ==
  [][(Len(raised') > Len(raised)
        /\ raised'[Len(raised')].exc = "TypeError") =>
       LET p == raised'[Len(raised')].pipeline IN
       /\ UNCHANGED <<sentiment_polarity, predicted_sentiments, reports>>
       /\ SectionOf(pc) = p
       /\ pc' = NextSection(p)
       /\ status'[p] = "aborted"
       /\ \A k \in DOMAIN reports' : reports'[k].pipeline # p]_vars

\* a batch was aborted by an exception after labels had been computed for
\* earlier reviews
C8_Witness ==
  \E k \in DOMAIN raised :
    /\ raised[k].cell = "c15"
    /\ raised[k].exc = "TypeError"
    /\ Len(raised[k].partial) >= 2
    /\ predicted_sentiments = <<>>

\* C9: test_reviews and test_sentiments are the same slice of the dataset;
\* a batch scores each test review once, in order; the predictions of a
\* pipeline are as long as test_sentiments and predicted_sentiments[i] is
\* the label of test_reviews[i], whose true label is test_sentiments[i].
C9_Aligned ==
  /\ pc \notin {"c1", "c2"} =>
       /\ Len(test_reviews) = DatasetLen - SplitAt
       /\ Len(test_sentiments) = Len(test_reviews)
       /\ \A k \in DOMAIN test_reviews :
            /\ test_reviews[k] = csv[SplitAt + k].review
            /\ test_sentiments[k] = csv[SplitAt + k].sentiment
  /\ \A p \in Pipelines :
       /\ Len(CallsOf(BatchCell(p))) <= Len(test_reviews)
       /\ \A k \in DOMAIN CallsOf(BatchCell(p)) :
            CallsOf(BatchCell(p))[k].review = test_reviews[k]
       /\ owner.predicted_sentiments = p =>
            /\ Len(CallsOf(BatchCell(p))) = Len(test_reviews)
            /\ Len(predicted_sentiments) = Len(test_sentiments)
            /\ predicted_sentiments = OwnLabels(p)

\* the VADER batch has labelled a test split of different reviews with
\* different true labels
C9_Witness ==
  /\ owner.predicted_sentiments = "VADER"
  /\ \E j, k \in DOMAIN test_reviews :
       /\ test_reviews[j] # test_reviews[k]
       /\ test_sentiments[j] # test_sentiments[k]
       /\ predicted_sentiments[j] # predicted_sentiments[k]

\* C10: a score equal to the cutoff is 'positive' in all three pipelines
\* (polarity 0.1, AFINN 1.0, compound 0.4), and a neutral score of 0 is
\* 'negative' in all three.
C10_CutoffInclusive ==
  /\ \A p \in {"TextBlob", "AFINN"} :
       Owns(p) =>
         \A k \in DOMAIN predicted_sentiments :
           /\ sentiment_polarity[k] = CutoffOf(p)
                => predicted_sentiments[k] = "positive"
           /\ sentiment_polarity[k] = 0
                => predicted_sentiments[k] = "negative"
  /\ \A k \in DOMAIN vader_calls :
       /\ vader_calls[k].score = VaderCutoff
            => vader_calls[k].label = "positive"
       /\ vader_calls[k].score = 0 => vader_calls[k].label = "negative"

\* every pipeline has labelled a review scoring exactly its cutoff and a
\* review scoring 0
C10_Witness ==
  /\ Len(reports) = 3
  /\ \A p \in Pipelines :
       \E j, k \in DOMAIN test_reviews :
         /\ ScoreIn(p, test_reviews[j]) = CutoffOf(p)
         /\ ScoreIn(p, test_reviews[k]) = 0
  /\ \E j, k \in DOMAIN predicted_sentiments :
       /\ vader_calls[Len(vader_calls)].cell = "c15"
       /\ predicted_sentiments[j] = "positive"
       /\ predicted_sentiments[k] = "negative"

\* the thresholds of the def and of its two call sites (0.1 and 0.4)
CallThresholds == {1000, 4000}

\* C11: verbose only adds printed statistics: for every review and
\* threshold the call with verbose=True returns the label of the call with
\* verbose=False, and that label is the thresholded compound score, fixed
\* before the verbose branch (which prints it and the rounded score).
\* The last conjunct is about the review of the latest call, at either
\* threshold; every call is the latest in the state that follows it.
C11_VerboseOnlyPrints ==
  /\ \A j, k \in DOMAIN vader_calls :
       (vader_calls[j].review = vader_calls[k].review
          /\ vader_calls[j].threshold = vader_calls[k].threshold)
         => vader_calls[j].label = vader_calls[k].label
  /\ \A k \in DOMAIN vader_calls :
       /\ vader_calls[k].verbose = (vader_calls[k].cell = "c14")
       /\ vader_calls[k].label =
            LabelAt(vader_calls[k].threshold,
                    ScoreIn("VADER", vader_calls[k].review))
       /\ vader_calls[k].printed =
            IF vader_calls[k].verbose
            THEN <<vader_calls[k].label, Round2(vader_calls[k].score)>>
            ELSE <<>>
  /\ vader_calls # <<>> =>
       LET review == vader_calls[Len(vader_calls)].review IN
       \A t \in CallThresholds :
         /\ analyze_sentiment_vader_lexicon(review, t, TRUE).label
              = analyze_sentiment_vader_lexicon(review, t, FALSE).label
         /\ analyze_sentiment_vader_lexicon(review, t, TRUE).label
              = LabelAt(t, ScoreIn("VADER", review))

\* a review whose compound score is below the threshold but rounds to it
\* has been analysed verbosely in the sample loop and silently in the batch
C11_Witness ==
  \E j, k \in DOMAIN vader_calls :
    /\ vader_calls[j].verbose /\ ~vader_calls[k].verbose
    /\ vader_calls[j].review = vader_calls[k].review
    /\ vader_calls[j].score < vader_calls[j].threshold
    /\ Round2(vader_calls[j].score) >= vader_calls[j].threshold
    /\ vader_calls[j].printed # <<>>

\* the confusion matrices printed by the recorded run (rows: actual label)
RecordedConfusion ==
  [ p \in Pipelines |->
      CASE p = "TextBlob" ->
             [ positive |-> [positive |-> 5835, negative |-> 1675],
               negative |-> [positive |-> 1822, negative |-> 5668] ]
        [] p = "AFINN" ->
             [ positive |-> [positive |-> 6376, negative |-> 1134],
               negative |-> [positive |-> 3189, negative |-> 4301] ]
        [] OTHER ->
             [ positive |-> [positive |-> 6239, negative |-> 1271],
               negative |-> [positive |-> 3061, negative |-> 4429] ] ]

\* the accuracies printed by the recorded run, in 1/10000
RecordedAccuracy ==
  [ p \in Pipelines |->
      CASE p = "TextBlob" -> 7669
        [] p = "AFINN" -> 7118
        [] OTHER -> 7112 ]

\* the support column of the recorded classification reports
RecordedSupport == [positive |-> 7510, negative |-> 7490]

\* a confusion matrix cm with accuracy a (in 1/10000, rounded to 4 places)
\* partitions n reviews whose true labels are counted by support
Partitions(cm, a, n, support) ==
  LET diagonal == cm["positive"]["positive"] + cm["negative"]["negative"]
      cells == diagonal + cm["positive"]["negative"]
                        + cm["negative"]["positive"]
      off == a * n - 10000 * diagonal
  IN /\ cells = n
     /\ \A t \in Labels : cm[t]["positive"] + cm[t]["negative"] = support[t]
     /\ 2 * off <= n /\ 2 * off >= -n

\* the number of test reviews whose true label is t
TrueCount ==
  [ t \in Labels |->
      Cardinality({ k \in DOMAIN test_sentiments : test_sentiments[k] = t }) ]

\* C12: in every report the four cells of the confusion matrix sum to the
\* number of test reviews, each row sums to the count of that true label
\* whatever was predicted, and the accuracy is the diagonal over the total;
\* the recorded report of a pipeline that has reported does so with 15000
\* reviews, 7510 positive and 7490 negative.
C12_ConfusionPartitions ==
  /\ \A k \in DOMAIN reports :
       Partitions(reports[k].report.confusion, reports[k].report.accuracy,
                  Len(test_sentiments), TrueCount)
  /\ reports # <<>> =>
       LET p == reports[Len(reports)].pipeline IN
       /\ Partitions(RecordedConfusion[p], RecordedAccuracy[p], 15000,
                     RecordedSupport)
       /\ MetricsOf(RecordedConfusion[p], Classes).accuracy
            = RecordedAccuracy[p]

\* three reports on a split with both true labels, two of them with
\* different predictions, one with a right and a wrong prediction
C12_Witness ==
  /\ Len(reports) = 3
  /\ \A t \in Labels : TrueCount[t] > 0
  /\ reports[1].predicted_labels # reports[3].predicted_labels
  /\ \E k \in DOMAIN reports :
       /\ reports[k].report.accuracy > 0
       /\ reports[k].report.accuracy < 10000
       /\ Cardinality({ j \in DOMAIN predicted_sentiments :
                          reports[k].predicted_labels[j] = "positive" })
            # TrueCount["positive"]

====
